---- MODULE Spec2Model ----
(***************************************************************************)
(* openFraming: the asynchronous training-job orchestration.               *)
(*                                                                         *)
(*   request layer   backend/flask_app/app.py                              *)
(*       Classifiers.post, ClassifiersTrainingFile.post and its validator  *)
(*   task executors  services/web/backend/flask_app/modeling/tasks.py      *)
(*       do_classifier_related_task (training, prediction),                *)
(*       do_topic_model_related_task                                       *)
(*                                                                         *)
(* Storage rows are keyed by auto-incremented integers; a foreign key of 0 *)
(* is SQL NULL (Python None).  A model instance is a copy of its row held  *)
(* in the memory of one request or one worker; save() writes the whole     *)
(* copy back, so the last write to a row wins.                             *)
(***************************************************************************)
EXTENDS Integers, Sequences, FiniteSets, TLC

\* ------------------------------------------------------------------ bounds
NumRequests == 2        \* upload requests the request layer may serve, possibly at once
NumWorkers == 2         \* worker processes pulling from the queue
MaxRows == 6            \* data rows of an uploaded table
MaxCategoryNames == 2   \* length of a classifier's category_names list
MaxClassifiers == 1     \* classifiers ever created
MaxSubmissions == 2     \* jobs submitted for the one test set / topic model
MaxGroupedRows == 9     \* data rows of an uploaded table whose rows are grouped by category

Requests == 1..NumRequests
Workers == 1..NumWorkers
ClassifierIds == 1..MaxClassifiers

Categories == {"pos", "neg", "neu"}
Examples == {"x"}
MetricsValues == {"acc_0.9", "acc_0.5"}

\* Python exception classes an opaque component may raise: ValueError derives from
\* Exception, KeyboardInterrupt only from BaseException.
ExceptionTypes == {"ValueError", "KeyboardInterrupt"}
DerivedFromException == {"ValueError"}

Null == 0

\* ------------------------------------------------------------------ uploaded tables
ExpectedHeaders == <<"example", "category">>
HeaderRows == {ExpectedHeaders, <<"category", "example">>, <<"example", "category", "extra">>}
DataRows == {<<e, c>> : e \in Examples, c \in Categories}
DataTables == UNION {[1..n -> DataRows] : n \in 0..MaxRows}
\* A parsed csv: the header row, then the data rows.
Tables == {<<h>> \o d : h \in HeaderRows, d \in DataTables}

CategoryNameLists == UNION {[1..n -> Categories] : n \in 0..MaxCategoryNames}

Range(f) == {f[i] : i \in DOMAIN f}

RECURSIVE SumOver(_, _)
SumOver(f, S) ==
  IF S = {} THEN 0
  ELSE LET x == CHOOSE y \in S : TRUE IN f[x] + SumOver(f, S \ {x})

\* utils.TEST_SET_SPLIT, in percent
TEST_SET_SPLIT_PCT == 20
\* test_size=0.2 of the StratifiedShuffleSplit, in percent
TestSizePct == 20

TableHasNumColumns(table, n) == \A i \in DOMAIN table : Len(table[i]) = n
TableHasHeaders(table, headers) == table[1] = headers

\* collections.Counter over the category column
CategoryCounter(table_data) ==
  [c \in {table_data[i][2] : i \in DOMAIN table_data} |->
     Cardinality({i \in DOMAIN table_data : table_data[i][2] = c})]

ValidationError(kind, named) == [error |-> kind, named |-> named, table |-> <<>>]

\* ClassifiersTrainingFile._validate_training_file_and_get_data: the first failing
\* check raises; otherwise the table (headers and data) is returned.
ValidateNoSubsetOnly(category_names, table) ==
  IF ~TableHasNumColumns(table, 2) THEN ValidationError("BadRequest:num_columns", {})
  ELSE IF ~TableHasHeaders(table, ExpectedHeaders) THEN ValidationError("BadRequest:headers", {})
  ELSE LET table_data == Tail(table)
           counter == CategoryCounter(table_data)
       IN IF ~(DOMAIN counter \subseteq Range(category_names))
          THEN ValidationError("UnprocessableEntity:categories", {})
          ELSE [error |-> "none", named |-> {}, table |-> table]

ValidatePerCategoryOffByOne(category_names, table) ==
  IF ~TableHasNumColumns(table, 2) THEN ValidationError("BadRequest:num_columns", {})
  ELSE IF ~TableHasHeaders(table, ExpectedHeaders) THEN ValidationError("BadRequest:headers", {})
  ELSE LET table_data == Tail(table)
           category_names_counter == CategoryCounter(table_data)
           unique_category_names == DOMAIN category_names_counter
           categories_with_no_exs ==
             {c \in unique_category_names : category_names_counter[c] < 1}
       IN IF Range(category_names) # unique_category_names
          THEN ValidationError("UnprocessableEntity:categories", {})
          ELSE IF categories_with_no_exs # {}
          THEN ValidationError("UnprocessableEntity:per_category", categories_with_no_exs)
          ELSE [error |-> "none", named |-> {}, table |-> table]

ValidateTrainingFileAndGetData(category_names, table) ==
  IF ~TableHasNumColumns(table, 2) THEN ValidationError("BadRequest:num_columns", {})
  ELSE IF ~TableHasHeaders(table, ExpectedHeaders) THEN ValidationError("BadRequest:headers", {})
  ELSE LET table_data == Tail(table)
           min_num_examples == (Len(table_data) * TEST_SET_SPLIT_PCT) \div 100
           category_names_counter == CategoryCounter(table_data)
           unique_category_names == DOMAIN category_names_counter
           categories_with_less_than_two_exs ==
             {c \in unique_category_names : category_names_counter[c] < 2}
       IN IF Len(table_data) < min_num_examples
          THEN ValidationError("BadRequest:min_examples", {})
          ELSE IF Range(category_names) # unique_category_names
          THEN ValidationError("UnprocessableEntity:categories", {})
          ELSE IF categories_with_less_than_two_exs # {}
          THEN ValidationError("UnprocessableEntity:per_category",
                               categories_with_less_than_two_exs)
          ELSE [error |-> "none", named |-> {}, table |-> table]

\* sklearn StratifiedShuffleSplit(n_splits=1, test_size=0.2).split(X, y): the set of
\* (train_indices, dev_indices) it may return; the empty set when it raises
\* ValueError.  n_test = ceil(0.2 n), n_train = n - n_test; the train count of each
\* class is its proportional share of n_train rounded down, the remaining places
\* going to the classes with the largest remainders (ties broken at random); the
\* dev side takes what is left of every class.
StratifiedShuffleSplit(table_data) ==
  LET n == Len(table_data)
      y == [i \in 1..n |-> table_data[i][2]]
      classes == Range(y)
      class_counts == [c \in classes |-> Cardinality({i \in 1..n : y[i] = c})]
      n_test == (n * TestSizePct + 99) \div 100
      n_train == n - n_test
      floors == [c \in classes |-> (class_counts[c] * n_train) \div n]
      remainder == [c \in classes |-> (class_counts[c] * n_train) % n]
      need == n_train - SumOver(floors, classes)
      Bumped == {A \in SUBSET classes :
                   /\ Cardinality(A) = need
                   /\ \A a \in A, b \in classes \ A : remainder[a] >= remainder[b]}
  IN IF \/ n = 0
        \/ n_train <= 0
        \/ \E c \in classes : class_counts[c] < 2
        \/ n_train < Cardinality(classes)
        \/ n_test < Cardinality(classes)
     THEN {}
     ELSE {[train_indices |-> T, dev_indices |-> (1..n) \ T] :
             T \in {T \in SUBSET (1..n) :
                      \E A \in Bumped : \A c \in classes :
                        Cardinality({i \in T : y[i] = c})
                          = floors[c] + (IF c \in A THEN 1 ELSE 0)}}

\* The rows a csv file holds, as a bag (row -> count): the split shuffles, so every
\* order of the same rows can be written.
RowsAt(table_data, indices) ==
  [r \in {table_data[i] : i \in indices} |->
     Cardinality({i \in indices : table_data[i] = r})]

NoFile == [headers |-> <<>>, rows |-> <<>>]
CsvFile(headers, table_data, indices) ==
  [headers |-> headers, rows |-> RowsAt(table_data, indices)]

\* What lines 230-244 of ClassifiersTrainingFile.post come to for one uploaded
\* table: the error raised, or the two files written.
UploadOutcomes(category_names, table) ==
  LET v == ValidateTrainingFileAndGetData(category_names, table)
  IN IF v.error # "none"
     THEN {[error |-> v.error, named |-> v.named, train_file |-> NoFile, dev_file |-> NoFile]}
     ELSE LET table_headers == Head(v.table)
              table_data == Tail(v.table)
              splits == StratifiedShuffleSplit(table_data)
          IN IF splits = {}
             THEN {[error |-> "ValueError", named |-> {},
                    train_file |-> NoFile, dev_file |-> NoFile]}
             ELSE {[error |-> "none", named |-> {},
                    train_file |-> CsvFile(table_headers, table_data, s.train_indices),
                    dev_file |-> CsvFile(table_headers, table_data, s.dev_indices)] :
                     s \in splits}

\* UploadOutcomes tabulated, and every outcome some uploaded table produces, per
\* declared category list.
UploadOutcomesOf ==
  [category_names \in CategoryNameLists |->
     [t \in Tables |-> UploadOutcomes(category_names, t)]]
AllUploadOutcomes ==
  [category_names \in CategoryNameLists |->
     UNION {UploadOutcomesOf[category_names][t] : t \in Tables}]

\* Larger uploaded tables, one per multiset of rows: the rows of a category are
\* adjacent, "pos" first, then "neg", then "neu".  Validation and the split look
\* only at how often each category occurs, and the files are compared as bags.
GroupedDataTables ==
  {[i \in 1..(a + b + c) |->
      <<e, IF i <= a THEN "pos" ELSE IF i <= a + b THEN "neg" ELSE "neu">>] :
     e \in Examples,
     a \in 0..MaxGroupedRows, b \in 0..MaxGroupedRows, c \in 0..MaxGroupedRows}
  \cap UNION {[1..n -> DataRows] : n \in 0..MaxGroupedRows}
GroupedTables == {<<ExpectedHeaders>> \o d : d \in GroupedDataTables}
GroupedUploadOutcomesOf ==
  [category_names \in CategoryNameLists |->
     [t \in GroupedTables |-> UploadOutcomes(category_names, t)]]

\* ------------------------------------------------------------------ state
VARIABLES
  classifiers,    \* Classifier rows: classifier_id -> [category_names, train_set, dev_set]
  labeled_sets,   \* LabeledSet rows: id_ -> [training_or_inference_completed, error_encountered, metrics]
  metrics_rows,   \* Metrics rows: id_ -> the metrics saved
  files,          \* classifier_id -> [train, dev]: the csv files of its directory
  test_sets,      \* TestSet rows: id_ -> [inference_began, inference_completed, error_encountered]
  topic_models,   \* TopicModel rows: id_ -> [lda_set]
  lda_sets,       \* LDASet rows: id_ -> [lda_completed, error_encountered]
  queue,          \* the Rq queue: job -> how many of it wait
  req,            \* per upload request: position in ClassifiersTrainingFile.post and its locals
  wrk             \* per worker: position in the task it runs and the task's locals

vars == <<classifiers, labeled_sets, metrics_rows, files, test_sets, topic_models,
          lda_sets, queue, req, wrk>>

TestSetIds == {1}
TopicModelIds == {1}

Jobs == {[task_type |-> "training", id |-> c] : c \in ClassifierIds}
        \cup {[task_type |-> "prediction", id |-> t] : t \in TestSetIds}
        \cup {[task_type |-> "topic_model", id |-> m] : m \in TopicModelIds}

\* The id an INSERT gives a new row (auto-increment; no row is ever deleted).
NextId(rows) == Cardinality(DOMAIN rows) + 1
Insert(rows, row) == [i \in DOMAIN rows \cup {NextId(rows)} |->
                        IF i \in DOMAIN rows THEN rows[i] ELSE row]

NoClassifier == [category_names |-> <<>>, train_set |-> Null, dev_set |-> Null]
NewLabeledSet == [training_or_inference_completed |-> FALSE,
                  error_encountered |-> FALSE, metrics |-> Null]
\* A request not yet received.  response: the training_status the handler returns
\* for each classifier it reports on.
IdleRequest == [pc |-> "idle", classifier_id |-> Null, classifier |-> NoClassifier,
                error |-> "none", named |-> {}, response |-> <<>>]
NoTestSet == [inference_began |-> FALSE, inference_completed |-> FALSE,
              error_encountered |-> FALSE]
NewLdaSet == [lda_completed |-> FALSE, error_encountered |-> FALSE]
NoJob == [task_type |-> "none", id |-> Null]
\* A worker between tasks.  outcome: what the opaque component did ("raised",
\* "returned"); notified: calls made to the Notification Dispatcher; exc: the
\* exception on its way out of the task function.
IdleWorker == [pc |-> "idle", job |-> NoJob, classifier |-> NoClassifier,
               train_set |-> NewLabeledSet, dev_set |-> NewLabeledSet,
               test_set |-> NoTestSet, lda_set_id |-> Null, lda_set |-> NewLdaSet,
               outcome |-> "none", metrics |-> "none", notified |-> 0, exc |-> "none"]

Init ==
  /\ classifiers = <<>>
  /\ labeled_sets = <<>>
  /\ metrics_rows = <<>>
  /\ files = [c \in ClassifierIds |-> [train |-> NoFile, dev |-> NoFile]]
  /\ test_sets = <<>>
  /\ topic_models = <<>>
  /\ lda_sets = <<>>
  /\ queue = [j \in Jobs |-> 0]
  /\ req = [r \in Requests |-> IdleRequest]
  /\ wrk = [w \in Workers |-> IdleWorker]

ClassifierStatusByDevSet(clsf) ==
  IF clsf.dev_set = Null THEN "not_begun"
  ELSE IF labeled_sets[clsf.dev_set].training_or_inference_completed THEN "completed"
  ELSE "training"

\* ClassifierRelatedResource._classifier_status, lines 81-87: the training_status
\* reported for a classifier row; clsf.train_set is read through the foreign key.
ClassifierStatus(clsf) ==
  IF clsf.train_set = Null THEN "not_begun"
  ELSE IF labeled_sets[clsf.train_set].training_or_inference_completed THEN "completed"
  ELSE "training"

\* Classifiers.get: the status of every classifier in storage is returned.
ClassifiersGet(r) ==
  /\ req[r].pc = "idle"
  /\ req' = [req EXCEPT ![r] = [IdleRequest EXCEPT !.pc = "done",
                !.response = [c \in DOMAIN classifiers |-> ClassifierStatus(classifiers[c])]]]
  /\ UNCHANGED <<classifiers, labeled_sets, metrics_rows, files, queue, test_sets, topic_models, lda_sets, wrk>>

\* ------------------------------------------------------------------ request layer
\* Classifiers.post: fewer than two category names is a BadRequest, which changes
\* nothing; otherwise the classifier row is created.
ClassifiersPost ==
  \E category_names \in CategoryNameLists :
    /\ NextId(classifiers) \in ClassifierIds
    /\ IF Len(category_names) < 2
       THEN UNCHANGED classifiers
       ELSE classifiers' = Insert(classifiers,
              [category_names |-> category_names, train_set |-> Null, dev_set |-> Null])
    /\ UNCHANGED <<labeled_sets, metrics_rows, files, queue, req, test_sets, topic_models, lda_sets, wrk>>

\* An HTTPException leaves the handler: nothing after the raise runs.
Raise(r, classifier_id, error, named) ==
  /\ req' = [req EXCEPT ![r] = [IdleRequest EXCEPT !.pc = "raise",
                                  !.classifier_id = classifier_id,
                                  !.error = error, !.named = named]]
  /\ UNCHANGED <<classifiers, labeled_sets, metrics_rows, files, queue, test_sets, topic_models, lda_sets, wrk>>

HasTrainingSetNever(classifier) == FALSE

\* ClassifiersTrainingFile.post, line 227
HasTrainingSet(classifier) == classifier.train_set # Null

\* ClassifiersTrainingFile.post, lines 230-244, for one outcome of validating and
\* splitting the uploaded table: the error propagates, or both files are written.
UploadApply(r, classifier_id, outcome) ==
  IF outcome.error # "none"
  THEN Raise(r, classifier_id, outcome.error, outcome.named)
  ELSE /\ files' = [files EXCEPT ![classifier_id] =
                      [train |-> outcome.train_file, dev |-> outcome.dev_file]]
       /\ req' = [req EXCEPT ![r] = [IdleRequest EXCEPT !.pc = "save_train_set",
                                       !.classifier_id = classifier_id,
                                       !.classifier = classifiers[classifier_id]]]
       /\ UNCHANGED <<classifiers, labeled_sets, metrics_rows, queue, test_sets, topic_models, lda_sets, wrk>>

\* ClassifiersTrainingFile.post, lines 219-244, for the upload of `table` to an
\* existing classifier that is read without a training set.
UploadBeginWith(r, classifier_id, table) ==
  /\ req[r].pc = "idle"
  /\ classifier_id \in DOMAIN classifiers
  /\ ~HasTrainingSet(classifiers[classifier_id])
  /\ \E outcome \in UploadOutcomesOf[classifiers[classifier_id].category_names][table] :
       UploadApply(r, classifier_id, outcome)

\* ClassifiersTrainingFile.post, lines 219-244: the classifier is read once; the
\* checks and the split work on that copy and on the uploaded table.
UploadBegin(r) ==
  /\ req[r].pc = "idle"
  /\ \E classifier_id \in ClassifierIds :
       IF classifier_id \notin DOMAIN classifiers
       THEN Raise(r, classifier_id, "NotFound", {})
       ELSE IF HasTrainingSet(classifiers[classifier_id])
       THEN Raise(r, classifier_id, "AlreadyExists", {})
       ELSE \E outcome \in AllUploadOutcomes[classifiers[classifier_id].category_names] :
              UploadApply(r, classifier_id, outcome)

\* ClassifiersTrainingFile.post, lines 219-244, for the upload of a grouped table.
UploadGroupedWith(r, classifier_id, table) ==
  /\ req[r].pc = "idle"
  /\ classifier_id \in DOMAIN classifiers
  /\ ~HasTrainingSet(classifiers[classifier_id])
  /\ \E outcome \in GroupedUploadOutcomesOf[classifiers[classifier_id].category_names][table] :
       UploadApply(r, classifier_id, outcome)

UploadGrouped(r) ==
  /\ req[r].pc = "idle"
  /\ \E classifier_id \in ClassifierIds :
       IF classifier_id \notin DOMAIN classifiers
       THEN Raise(r, classifier_id, "NotFound", {})
       ELSE IF HasTrainingSet(classifiers[classifier_id])
       THEN Raise(r, classifier_id, "AlreadyExists", {})
       ELSE \E table \in GroupedTables : UploadGroupedWith(r, classifier_id, table)

\* lines 246 and 248: classifier.train_set = db.LabeledSet(); classifier.train_set.save()
UploadSaveTrainSet(r) ==
  /\ req[r].pc = "save_train_set"
  /\ labeled_sets' = Insert(labeled_sets, NewLabeledSet)
  /\ req' = [req EXCEPT ![r].pc = "save_dev_set",
                        ![r].classifier.train_set = NextId(labeled_sets)]
  /\ UNCHANGED <<classifiers, metrics_rows, files, queue, test_sets, topic_models, lda_sets, wrk>>

\* lines 247 and 249: classifier.dev_set = db.LabeledSet(); classifier.dev_set.save()
UploadSaveDevSet(r) ==
  /\ req[r].pc = "save_dev_set"
  /\ labeled_sets' = Insert(labeled_sets, NewLabeledSet)
  /\ req' = [req EXCEPT ![r].pc = "save_classifier",
                        ![r].classifier.dev_set = NextId(labeled_sets)]
  /\ UNCHANGED <<classifiers, metrics_rows, files, queue, test_sets, topic_models, lda_sets, wrk>>

UploadSaveClassifierSkipped(r) ==
  /\ req[r].pc = "save_classifier"
  /\ req' = [req EXCEPT ![r].pc = "enqueue"]
  /\ UNCHANGED <<classifiers, labeled_sets, metrics_rows, files, queue, test_sets, topic_models, lda_sets, wrk>>

\* line 250: classifier.save() writes this request's copy of the row
UploadSaveClassifier(r) ==
  /\ req[r].pc = "save_classifier"
  /\ classifiers' = [classifiers EXCEPT ![req[r].classifier_id] = req[r].classifier]
  /\ req' = [req EXCEPT ![r].pc = "enqueue"]
  /\ UNCHANGED <<labeled_sets, metrics_rows, files, queue, test_sets, topic_models, lda_sets, wrk>>

\* lines 253-269: the classifier is read again, the training job is handed to the
\* scheduler and the handler returns the classifier's status.
UploadEnqueue(r) ==
  /\ req[r].pc = "enqueue"
  /\ LET job == [task_type |-> "training", id |-> req[r].classifier_id]
     IN queue' = [queue EXCEPT ![job] = @ + 1]
  /\ req' = [req EXCEPT ![r] = [IdleRequest EXCEPT !.pc = "done",
                !.response = [c \in {req[r].classifier_id} |->
                                ClassifierStatus(classifiers[c])]]]
  /\ UNCHANGED <<classifiers, labeled_sets, metrics_rows, files, test_sets, topic_models, lda_sets, wrk>>

\* The framework turns the exception into the error response.
UploadRespondError(r) ==
  /\ req[r].pc = "raise"
  /\ req' = [req EXCEPT ![r] = [IdleRequest EXCEPT !.pc = "done"]]
  /\ UNCHANGED <<classifiers, labeled_sets, metrics_rows, files, queue, test_sets, topic_models, lda_sets, wrk>>

\* ------------------------------------------------------------------ workers
request_side == <<files, req>>

\* A worker takes any waiting job: the queue promises no order across workers.
Dequeue(w) ==
  /\ wrk[w].pc = "idle"
  /\ \E job \in Jobs :
       /\ queue[job] > 0
       /\ queue' = [queue EXCEPT ![job] = @ - 1]
       /\ wrk' = [wrk EXCEPT ![w] = [IdleWorker EXCEPT !.pc = "start", !.job = job]]
  /\ UNCHANGED <<classifiers, labeled_sets, metrics_rows, test_sets, topic_models,
                 lda_sets, request_side>>

\* The task function is left: Rq records the job as finished or failed.
Finish(w) ==
  /\ wrk[w].pc = "done"
  /\ wrk' = [wrk EXCEPT ![w] = IdleWorker]
  /\ UNCHANGED <<classifiers, labeled_sets, metrics_rows, test_sets, topic_models,
                 lda_sets, queue, request_side>>

CaughtIfException(e) == e \in DerivedFromException

\* `except BaseException`: every exception class derives from BaseException.
CaughtByExceptBaseException(e) == e \in ExceptionTypes

AfterTryWithoutFinally(exc) == IF exc = "none" THEN "save_dev_set" ELSE "done"

\* do_classifier_related_task, training: where control goes when the try statement's
\* body, handler or else block is left, with or without an exception: the finally
\* block of lines 108-111.
AfterTryTraining(exc) == "save_dev_set"

\* ---- do_classifier_related_task, task_type "training"
\* lines 75-79: the classifier and (through the foreign keys) its two sets are
\* read; an assertion that fails leaves the function before the try statement.
TrainingLoad(w) ==
  /\ wrk[w].pc = "start"
  /\ wrk[w].job.task_type = "training"
  /\ LET clsf == classifiers[wrk[w].job.id]
     IN IF clsf.train_set = Null \/ clsf.dev_set = Null
        THEN wrk' = [wrk EXCEPT ![w].pc = "done", ![w].exc = "AssertionError"]
        ELSE wrk' = [wrk EXCEPT ![w].pc = "train",
                                ![w].classifier = clsf,
                                ![w].train_set = labeled_sets[clsf.train_set],
                                ![w].dev_set = labeled_sets[clsf.dev_set]]
  /\ UNCHANGED <<classifiers, labeled_sets, metrics_rows, test_sets, topic_models,
                 lda_sets, queue, request_side>>

\* lines 81-98: the opaque trainer (ClassifierModel(...), train_and_evaluate())
\* raises or returns metrics; the handler or the first two lines of the else
\* block set the flags on the copies in memory.
TrainerRun(w) ==
  /\ wrk[w].pc = "train"
  /\ \/ \E e \in ExceptionTypes :
          IF CaughtByExceptBaseException(e)
          THEN wrk' = [wrk EXCEPT ![w].pc = AfterTryTraining("none"),
                                  ![w].outcome = "raised",
                                  ![w].train_set.error_encountered = TRUE,
                                  ![w].dev_set.error_encountered = TRUE]
          ELSE wrk' = [wrk EXCEPT ![w].pc = AfterTryTraining(e),
                                  ![w].outcome = "raised",
                                  ![w].exc = e]
     \/ \E metrics \in MetricsValues :
          wrk' = [wrk EXCEPT ![w].pc = "attach_metrics",
                             ![w].outcome = "returned",
                             ![w].metrics = metrics,
                             ![w].train_set.training_or_inference_completed = TRUE,
                             ![w].dev_set.training_or_inference_completed = TRUE]
  /\ UNCHANGED <<classifiers, labeled_sets, metrics_rows, test_sets, topic_models,
                 lda_sets, queue, request_side>>

\* lines 99-100: clsf.dev_set.metrics = db.Metrics(**metrics); .save().  The
\* Metrics row is inserted, or building or saving it raises.
AttachMetrics(w) ==
  /\ wrk[w].pc = "attach_metrics"
  /\ \/ /\ metrics_rows' = Insert(metrics_rows, wrk[w].metrics)
        /\ wrk' = [wrk EXCEPT ![w].pc = "notify",
                              ![w].dev_set.metrics = NextId(metrics_rows)]
     \/ /\ \E e \in ExceptionTypes :
             wrk' = [wrk EXCEPT ![w].pc = AfterTryTraining(e), ![w].exc = e]
        /\ UNCHANGED metrics_rows
  /\ UNCHANGED <<classifiers, labeled_sets, test_sets, topic_models,
                 lda_sets, queue, request_side>>

TrainingNotifyAfterSaving(w) ==
  /\ wrk[w].pc = "notify"
  /\ labeled_sets' = [labeled_sets EXCEPT ![wrk[w].classifier.dev_set] = wrk[w].dev_set,
                                          ![wrk[w].classifier.train_set] = wrk[w].train_set]
  /\ wrk' = [wrk EXCEPT ![w].pc = AfterTryTraining("none"), ![w].notified = @ + 1]
  /\ UNCHANGED <<classifiers, metrics_rows, test_sets, topic_models,
                 lda_sets, queue, request_side>>

\* lines 101-106: the Notification Dispatcher is called
\* ("classifier_training_finished"); the call returns or raises.
TrainingNotify(w) ==
  /\ wrk[w].pc = "notify"
  /\ \/ wrk' = [wrk EXCEPT ![w].pc = AfterTryTraining("none"), ![w].notified = @ + 1]
     \/ \E e \in ExceptionTypes :
          wrk' = [wrk EXCEPT ![w].pc = AfterTryTraining(e), ![w].notified = @ + 1,
                             ![w].exc = e]
  /\ UNCHANGED <<classifiers, labeled_sets, metrics_rows, test_sets, topic_models,
                 lda_sets, queue, request_side>>

\* line 109: clsf.dev_set.save()
TrainingSaveDevSet(w) ==
  /\ wrk[w].pc = "save_dev_set"
  /\ labeled_sets' = [labeled_sets EXCEPT ![wrk[w].classifier.dev_set] = wrk[w].dev_set]
  /\ wrk' = [wrk EXCEPT ![w].pc = "save_train_set"]
  /\ UNCHANGED <<classifiers, metrics_rows, test_sets, topic_models,
                 lda_sets, queue, request_side>>

\* line 110: clsf.train_set.save()
TrainingSaveTrainSet(w) ==
  /\ wrk[w].pc = "save_train_set"
  /\ labeled_sets' = [labeled_sets EXCEPT ![wrk[w].classifier.train_set] = wrk[w].train_set]
  /\ wrk' = [wrk EXCEPT ![w].pc = "save_classifier"]
  /\ UNCHANGED <<classifiers, metrics_rows, test_sets, topic_models,
                 lda_sets, queue, request_side>>

\* line 111: clsf.save(); the function returns, or the pending exception goes on
TrainingSaveClassifier(w) ==
  /\ wrk[w].pc = "save_classifier"
  /\ classifiers' = [classifiers EXCEPT ![wrk[w].job.id] = wrk[w].classifier]
  /\ wrk' = [wrk EXCEPT ![w].pc = "done"]
  /\ UNCHANGED <<labeled_sets, metrics_rows, test_sets, topic_models,
                 lda_sets, queue, request_side>>

\* ---- do_classifier_related_task, task_type "prediction"
\* A prediction is requested for a new test set (inference_began is set when the
\* request is accepted), and its job is handed to the scheduler, which neither
\* deduplicates nor limits jobs per resource.
SubmitPrediction ==
  /\ NextId(test_sets) \in TestSetIds
  /\ test_sets' = Insert(test_sets, [NoTestSet EXCEPT !.inference_began = TRUE])
  /\ \E n \in 1..MaxSubmissions :
       queue' = [queue EXCEPT ![[task_type |-> "prediction", id |-> NextId(test_sets)]] = @ + n]
  /\ UNCHANGED <<classifiers, labeled_sets, metrics_rows, topic_models, lda_sets,
                 request_side, wrk>>

\* lines 35-37: the test set is read; a failing assertion leaves the function
PredictionLoad(w) ==
  /\ wrk[w].pc = "start"
  /\ wrk[w].job.task_type = "prediction"
  /\ LET test_set == test_sets[wrk[w].job.id]
     IN IF ~test_set.inference_began \/ test_set.inference_completed
        THEN wrk' = [wrk EXCEPT ![w].pc = "done", ![w].exc = "AssertionError"]
        ELSE wrk' = [wrk EXCEPT ![w].pc = "predict", ![w].test_set = test_set]
  /\ UNCHANGED <<classifiers, labeled_sets, metrics_rows, test_sets, topic_models,
                 lda_sets, queue, request_side>>

\* lines 52-54: the except handler's change to the test set in memory
PredictionExcept(test_set) == [test_set EXCEPT !.error_encountered = TRUE]

\* lines 39-56: the opaque predictor (ClassifierModel(...),
\* predict_and_save_predictions()) raises or returns
PredictorRun(w) ==
  /\ wrk[w].pc = "predict"
  /\ \/ \E e \in ExceptionTypes :
          IF CaughtByExceptBaseException(e)
          THEN wrk' = [wrk EXCEPT ![w].pc = "save_test_set",
                                  ![w].outcome = "raised",
                                  ![w].test_set = PredictionExcept(@)]
          ELSE wrk' = [wrk EXCEPT ![w].pc = "save_test_set",
                                  ![w].outcome = "raised",
                                  ![w].exc = e]
     \/ wrk' = [wrk EXCEPT ![w].pc = "notify_prediction",
                           ![w].outcome = "returned",
                           ![w].test_set.inference_completed = TRUE]
  /\ UNCHANGED <<classifiers, labeled_sets, metrics_rows, test_sets, topic_models,
                 lda_sets, queue, request_side>>

\* lines 57-69: the Notification Dispatcher is called
\* ("classifier_inference_finished"); the call returns or raises.
PredictionNotify(w) ==
  /\ wrk[w].pc = "notify_prediction"
  /\ \/ wrk' = [wrk EXCEPT ![w].pc = "save_test_set", ![w].notified = @ + 1]
     \/ \E e \in ExceptionTypes :
          wrk' = [wrk EXCEPT ![w].pc = "save_test_set", ![w].notified = @ + 1,
                             ![w].exc = e]
  /\ UNCHANGED <<classifiers, labeled_sets, metrics_rows, test_sets, topic_models,
                 lda_sets, queue, request_side>>

\* lines 70-71: finally: test_set.save()
PredictionSave(w) ==
  /\ wrk[w].pc = "save_test_set"
  /\ test_sets' = [test_sets EXCEPT ![wrk[w].job.id] = wrk[w].test_set]
  /\ wrk' = [wrk EXCEPT ![w].pc = "done"]
  /\ UNCHANGED <<classifiers, labeled_sets, metrics_rows, topic_models,
                 lda_sets, queue, request_side>>

\* ---- do_topic_model_related_task
\* A topic model with its LDASet is registered and its training job is handed to
\* the scheduler.
SubmitTopicModel ==
  /\ NextId(topic_models) \in TopicModelIds
  /\ lda_sets' = Insert(lda_sets, NewLdaSet)
  /\ topic_models' = Insert(topic_models, [lda_set |-> NextId(lda_sets)])
  /\ \E n \in 1..MaxSubmissions :
       queue' = [queue EXCEPT ![[task_type |-> "topic_model", id |-> NextId(topic_models)]] = @ + n]
  /\ UNCHANGED <<classifiers, labeled_sets, metrics_rows, test_sets, request_side, wrk>>

\* lines 116-117: the topic model and its LDASet are read
TopicModelLoad(w) ==
  /\ wrk[w].pc = "start"
  /\ wrk[w].job.task_type = "topic_model"
  /\ LET topic_mdl == topic_models[wrk[w].job.id]
     IN IF topic_mdl.lda_set = Null
        THEN wrk' = [wrk EXCEPT ![w].pc = "done", ![w].exc = "AssertionError"]
        ELSE wrk' = [wrk EXCEPT ![w].pc = "lda_build",
                                ![w].lda_set_id = topic_mdl.lda_set,
                                ![w].lda_set = lda_sets[topic_mdl.lda_set]]
  /\ UNCHANGED <<classifiers, labeled_sets, metrics_rows, test_sets, topic_models,
                 lda_sets, queue, request_side>>

\* lines 118-131: the try body builds the Corpus and the LDAModeler
LdaBuild(w) ==
  /\ wrk[w].pc = "lda_build"
  /\ \/ \E e \in ExceptionTypes :
          IF CaughtByExceptBaseException(e)
          THEN wrk' = [wrk EXCEPT ![w].pc = "save_lda_set",
                                  ![w].outcome = "raised",
                                  ![w].lda_set.error_encountered = TRUE]
          ELSE wrk' = [wrk EXCEPT ![w].pc = "save_lda_set",
                                  ![w].outcome = "raised",
                                  ![w].exc = e]
     \/ wrk' = [wrk EXCEPT ![w].pc = "lda_spreadsheet"]
  /\ UNCHANGED <<classifiers, labeled_sets, metrics_rows, test_sets, topic_models,
                 lda_sets, queue, request_side>>

\* lines 132-138: the else block calls model_topics_to_spreadsheet, which trains
\* the topic model and writes the keyword and topics-by-document files; no handler
\* covers the else block, so what it raises goes on through the finally block.
LdaSpreadsheet(w) ==
  /\ wrk[w].pc = "lda_spreadsheet"
  /\ \/ \E e \in ExceptionTypes :
          wrk' = [wrk EXCEPT ![w].pc = "save_lda_set",
                             ![w].outcome = "raised",
                             ![w].exc = e]
     \/ wrk' = [wrk EXCEPT ![w].pc = "notify_topic_model",
                           ![w].outcome = "returned",
                           ![w].lda_set.lda_completed = TRUE]
  /\ UNCHANGED <<classifiers, labeled_sets, metrics_rows, test_sets, topic_models,
                 lda_sets, queue, request_side>>

\* lines 139-145: the Notification Dispatcher is called
\* ("topic_model_training_finished"); the call returns or raises.
TopicModelNotify(w) ==
  /\ wrk[w].pc = "notify_topic_model"
  /\ \/ wrk' = [wrk EXCEPT ![w].pc = "save_lda_set", ![w].notified = @ + 1]
     \/ \E e \in ExceptionTypes :
          wrk' = [wrk EXCEPT ![w].pc = "save_lda_set", ![w].notified = @ + 1,
                             ![w].exc = e]
  /\ UNCHANGED <<classifiers, labeled_sets, metrics_rows, test_sets, topic_models,
                 lda_sets, queue, request_side>>

\* lines 147-148: finally: topic_mdl.lda_set.save()
TopicModelSave(w) ==
  /\ wrk[w].pc = "save_lda_set"
  /\ lda_sets' = [lda_sets EXCEPT ![wrk[w].lda_set_id] = wrk[w].lda_set]
  /\ wrk' = [wrk EXCEPT ![w].pc = "done"]
  /\ UNCHANGED <<classifiers, labeled_sets, metrics_rows, test_sets, topic_models,
                 queue, request_side>>

\* ------------------------------------------------------------------ specifications
RequestLayer ==
  \/ \E r \in Requests : UploadBegin(r)
  \/ \E r \in Requests : UploadSaveTrainSet(r)
  \/ \E r \in Requests : UploadSaveDevSet(r)
  \/ \E r \in Requests : UploadSaveClassifier(r)
  \/ \E r \in Requests : UploadEnqueue(r)
  \/ \E r \in Requests : UploadRespondError(r)

TrainingTask ==
  \/ \E w \in Workers : TrainingLoad(w)
  \/ \E w \in Workers : TrainerRun(w)
  \/ \E w \in Workers : AttachMetrics(w)
  \/ \E w \in Workers : TrainingNotify(w)
  \/ \E w \in Workers : TrainingSaveDevSet(w)
  \/ \E w \in Workers : TrainingSaveTrainSet(w)
  \/ \E w \in Workers : TrainingSaveClassifier(w)

PredictionTask ==
  \/ \E w \in Workers : PredictionLoad(w)
  \/ \E w \in Workers : PredictorRun(w)
  \/ \E w \in Workers : PredictionNotify(w)
  \/ \E w \in Workers : PredictionSave(w)

TopicModelTask ==
  \/ \E w \in Workers : TopicModelLoad(w)
  \/ \E w \in Workers : LdaBuild(w)
  \/ \E w \in Workers : LdaSpreadsheet(w)
  \/ \E w \in Workers : TopicModelNotify(w)
  \/ \E w \in Workers : TopicModelSave(w)

WorkerLoop ==
  \/ \E w \in Workers : Dequeue(w)
  \/ \E w \in Workers : Finish(w)

\* The whole program.
Next ==
  \/ ClassifiersPost
  \/ \E r \in Requests : ClassifiersGet(r)
  \/ RequestLayer
  \/ SubmitPrediction
  \/ SubmitTopicModel
  \/ WorkerLoop
  \/ TrainingTask
  \/ PredictionTask
  \/ TopicModelTask

Spec == Init /\ [][Next]_vars

\* The request layer alone: classifiers are created and training files uploaded;
\* no worker runs.
NextUpload == ClassifiersPost \/ RequestLayer
SpecUpload == Init /\ [][NextUpload]_vars

\* Classifier training from upload to the end of the job, for classifiers that
\* Classifiers.post created with category names "pos" and "neg".
InitTraining ==
  /\ classifiers = [c \in ClassifierIds |->
                      [category_names |-> <<"pos", "neg">>, train_set |-> Null,
                       dev_set |-> Null]]
  /\ labeled_sets = <<>>
  /\ metrics_rows = <<>>
  /\ files = [c \in ClassifierIds |-> [train |-> NoFile, dev |-> NoFile]]
  /\ test_sets = <<>>
  /\ topic_models = <<>>
  /\ lda_sets = <<>>
  /\ queue = [j \in Jobs |-> 0]
  /\ req = [r \in Requests |-> IdleRequest]
  /\ wrk = [w \in Workers |-> IdleWorker]
NextTraining == RequestLayer \/ WorkerLoop \/ TrainingTask
SpecTraining == InitTraining /\ [][NextTraining]_vars

\* Classifier training, with clients polling the classifiers' status.
NextStatus == NextTraining \/ \E r \in Requests : ClassifiersGet(r)
SpecStatus == InitTraining /\ [][NextStatus]_vars

\* Classifier prediction alone.
NextPrediction == SubmitPrediction \/ WorkerLoop \/ PredictionTask
SpecPrediction == Init /\ [][NextPrediction]_vars

\* Topic-model training alone.
NextTopicModel == SubmitTopicModel \/ WorkerLoop \/ TopicModelTask
SpecTopicModel == Init /\ [][NextTopicModel]_vars

\* The three task executors together, from the state a first accepted upload for
\* classifier 1 leaves: its files written, its train and dev sets and the
\* classifier stored, its training job waiting in the queue.
InitExecutors ==
  /\ classifiers = [c \in ClassifierIds |->
                      [category_names |-> <<"pos", "neg">>,
                       train_set |-> IF c = 1 THEN 1 ELSE Null,
                       dev_set |-> IF c = 1 THEN 2 ELSE Null]]
  /\ labeled_sets = <<NewLabeledSet, NewLabeledSet>>
  /\ metrics_rows = <<>>
  /\ \E outcome \in {o \in AllUploadOutcomes[<<"pos", "neg">>] : o.error = "none"} :
       files = [c \in ClassifierIds |->
                  IF c = 1 THEN [train |-> outcome.train_file, dev |-> outcome.dev_file]
                  ELSE [train |-> NoFile, dev |-> NoFile]]
  /\ test_sets = <<>>
  /\ topic_models = <<>>
  /\ lda_sets = <<>>
  /\ queue = [j \in Jobs |-> IF j = [task_type |-> "training", id |-> 1] THEN 1 ELSE 0]
  /\ req = [r \in Requests |->
              IF r = 1 THEN [IdleRequest EXCEPT !.pc = "done", !.response = <<"training">>]
              ELSE IdleRequest]
  /\ wrk = [w \in Workers |-> IdleWorker]
NextExecutors ==
  \/ SubmitPrediction
  \/ SubmitTopicModel
  \/ WorkerLoop
  \/ TrainingTask
  \/ PredictionTask
  \/ TopicModelTask
SpecExecutors == InitExecutors /\ [][NextExecutors]_vars

\* Uploads of grouped tables to classifiers created with category names "pos" and
\* "neg"; no worker runs.
NextGrouped ==
  \/ \E r \in Requests : UploadGrouped(r)
  \/ \E r \in Requests : UploadSaveTrainSet(r)
  \/ \E r \in Requests : UploadSaveDevSet(r)
  \/ \E r \in Requests : UploadSaveClassifier(r)
  \/ \E r \in Requests : UploadEnqueue(r)
  \/ \E r \in Requests : UploadRespondError(r)
SpecGrouped == InitTraining /\ [][NextGrouped]_vars

\* ------------------------------------------------------------------ properties
PersistedTrainSet(w) == labeled_sets[wrk[w].classifier.train_set]
PersistedDevSet(w) == labeled_sets[wrk[w].classifier.dev_set]

\* The training task on worker w returns or unwinds in this step.
TrainingEnds(w) == wrk[w].pc = "save_classifier" /\ wrk'[w].pc = "done"

\* C1: whenever a training task whose trainer raised ends, the stored train and dev
\* rows have error_encountered = TRUE and training_or_inference_completed = FALSE,
\* the Notification Dispatcher was not called, and no exception leaves the task.
C1_TrainerFailureOutcome ==
  [][\A w \in Workers :
       (TrainingEnds(w) /\ wrk[w].outcome = "raised") =>
         /\ PersistedTrainSet(w)'.error_encountered
         /\ ~PersistedTrainSet(w)'.training_or_inference_completed
         /\ PersistedDevSet(w)'.error_encountered
         /\ ~PersistedDevSet(w)'.training_or_inference_completed
         /\ wrk[w].notified = 0
         /\ wrk[w].exc = "none"]_vars

\* C2: whenever a training task whose trainer returned metrics M ends normally, the
\* stored train and dev rows are completed and without error, the dev row's
\* Metrics row holds M, and the Notification Dispatcher was called exactly once.
C2_TrainerSuccessOutcome ==
  [][\A w \in Workers :
       (TrainingEnds(w) /\ wrk[w].outcome = "returned" /\ wrk[w].exc = "none") =>
         /\ PersistedTrainSet(w)'.training_or_inference_completed
         /\ PersistedDevSet(w)'.training_or_inference_completed
         /\ ~PersistedTrainSet(w)'.error_encountered
         /\ ~PersistedDevSet(w)'.error_encountered
         /\ PersistedDevSet(w)'.metrics \in DOMAIN metrics_rows'
         /\ metrics_rows'[PersistedDevSet(w)'.metrics] = wrk[w].metrics
         /\ wrk[w].notified = 1]_vars

\* C3: however the training task leaves the trainer step (the trainer raises, the
\* metric attachment raises, the notification raises, or all succeed), control
\* passes through the finally block: the dev row and then the train row are
\* written with the flags set in memory so far, and only then is the task left.
C3_PersistenceNeverSkipped ==
  [][\A w \in Workers :
       /\ (wrk[w].pc \in {"train", "attach_metrics", "notify"} /\ wrk'[w].pc # wrk[w].pc)
            => wrk'[w].pc \in {"attach_metrics", "notify", "save_dev_set"}
       /\ (wrk[w].pc = "save_dev_set" /\ wrk'[w].pc # "save_dev_set")
            => /\ wrk'[w].pc = "save_train_set"
               /\ PersistedDevSet(w)' = wrk[w].dev_set
               /\ (wrk[w].outcome = "raised" => wrk[w].dev_set.error_encountered)
               /\ (wrk[w].outcome = "returned"
                     => wrk[w].dev_set.training_or_inference_completed)
       /\ (wrk[w].pc = "save_train_set" /\ wrk'[w].pc # "save_train_set")
            => /\ wrk'[w].pc = "save_classifier"
               /\ PersistedTrainSet(w)' = wrk[w].train_set
               /\ (wrk[w].outcome = "raised" => wrk[w].train_set.error_encountered)
               /\ (wrk[w].outcome = "returned"
                     => wrk[w].train_set.training_or_inference_completed)
       /\ (wrk[w].pc # "done" /\ wrk'[w].pc = "done" /\ wrk[w].outcome # "none")
            => wrk[w].pc = "save_classifier"]_vars

\* C3 witness: a task is being left with the notification's exception pending, and
\* both rows are stored with the completed flag set before it.
C3_Witness ==
  \E w \in Workers :
    /\ wrk[w].pc = "done"
    /\ wrk[w].job.task_type = "training"
    /\ wrk[w].exc # "none"
    /\ wrk[w].notified = 1
    /\ PersistedDevSet(w).training_or_inference_completed
    /\ PersistedTrainSet(w).training_or_inference_completed

\* C4: whenever a topic-model task ends, a failure of the topic-model trainer
\* (Corpus, LDAModeler or model_topics_to_spreadsheet) has left the stored LDASet
\* with error_encountered = TRUE, without notification and without an exception
\* leaving the task; a success has left lda_completed = TRUE and one notification.
C4_TopicModelFailureIsolated ==
  [][\A w \in Workers :
       (wrk[w].pc = "save_lda_set" /\ wrk'[w].pc = "done") =>
         /\ wrk[w].outcome = "raised" =>
              /\ lda_sets'[wrk[w].lda_set_id].error_encountered
              /\ wrk[w].notified = 0
              /\ wrk[w].exc = "none"
         /\ wrk[w].outcome = "returned" =>
              /\ lda_sets'[wrk[w].lda_set_id].lda_completed
              /\ wrk[w].notified = 1]_vars

\* C5: the predictor runs only on a test set read with inference_began = TRUE and
\* inference_completed = FALSE; once it has run, control always reaches the save,
\* which writes the copy in memory; after a success that copy has
\* inference_completed = TRUE and the Notification Dispatcher was called once;
\* after a failure it has error_encountered = TRUE and inference_completed =
\* FALSE, the Dispatcher was not called and no exception leaves the task.
C5_PredictionExecutor ==
  [][\A w \in Workers :
       /\ (wrk[w].pc = "start" /\ wrk'[w].pc = "predict")
            => /\ test_sets[wrk[w].job.id].inference_began
               /\ ~test_sets[wrk[w].job.id].inference_completed
       /\ (wrk[w].pc \in {"predict", "notify_prediction"} /\ wrk'[w].pc # wrk[w].pc)
            => wrk'[w].pc \in {"notify_prediction", "save_test_set"}
       /\ (wrk[w].pc = "save_test_set" /\ wrk'[w].pc # "save_test_set")
            => /\ wrk'[w].pc = "done"
               /\ test_sets'[wrk[w].job.id] = wrk[w].test_set
               /\ wrk[w].outcome = "returned" =>
                    /\ test_sets'[wrk[w].job.id].inference_completed
                    /\ wrk[w].notified = 1
               /\ wrk[w].outcome = "raised" =>
                    /\ test_sets'[wrk[w].job.id].error_encountered
                    /\ ~test_sets'[wrk[w].job.id].inference_completed
                    /\ wrk[w].notified = 0
                    /\ wrk[w].exc = "none"]_vars

\* C5 witness: a prediction task has ended after its predictor raised, and the
\* stored test set carries the error.
C5_Witness ==
  \E w \in Workers :
    /\ wrk[w].pc = "done"
    /\ wrk[w].job.task_type = "prediction"
    /\ wrk[w].outcome = "raised"
    /\ test_sets[wrk[w].job.id].error_encountered
    /\ ~test_sets[wrk[w].job.id].inference_completed

\* C6: the trainer is invoked only for train and dev rows that were read as not
\* yet completed.
C6_TrainerNeverRunsOnCompleted ==
  \A w \in Workers :
    wrk[w].pc = "train" =>
      /\ ~wrk[w].train_set.training_or_inference_completed
      /\ ~wrk[w].dev_set.training_or_inference_completed

\* C7: no stored LabeledSet or TestSet row is ever deleted, and a completed or
\* error flag that is TRUE in storage is never FALSE afterwards.
C7_FlagsMonotonic ==
  [][/\ \A i \in DOMAIN labeled_sets :
          /\ i \in DOMAIN labeled_sets'
          /\ labeled_sets[i].training_or_inference_completed
               => labeled_sets'[i].training_or_inference_completed
          /\ labeled_sets[i].error_encountered => labeled_sets'[i].error_encountered
     /\ \A i \in DOMAIN test_sets :
          /\ i \in DOMAIN test_sets'
          /\ test_sets[i].inference_completed => test_sets'[i].inference_completed
          /\ test_sets[i].error_encountered => test_sets'[i].error_encountered]_vars

database == <<classifiers, labeled_sets, metrics_rows, test_sets, topic_models, lda_sets>>

\* C8: an upload that reads its classifier with a training set raises
\* AlreadyExists, and neither that step nor the rest of the request changes any
\* stored row, any file or the queue.
C8_ReuploadRejected ==
  [][\A r \in Requests :
       /\ ( /\ req[r].pc = "idle"
            /\ req'[r].pc # "idle"
            /\ req'[r].classifier_id \in DOMAIN classifiers
            /\ classifiers[req'[r].classifier_id].train_set # Null )
            => /\ req'[r].pc = "raise"
               /\ req'[r].error = "AlreadyExists"
               /\ UNCHANGED <<database, files, queue>>
       /\ (req[r].pc = "raise" /\ req'[r] # req[r])
            => /\ req'[r].pc = "done"
               /\ UNCHANGED <<database, files, queue>>]_vars

\* C8 witness: an upload has been rejected with AlreadyExists while the existing
\* train set is stored as completed.
C8_Witness ==
  \E r \in Requests :
    /\ req[r].pc = "raise"
    /\ req[r].error = "AlreadyExists"
    /\ labeled_sets[classifiers[req[r].classifier_id].train_set].training_or_inference_completed

\* C9: for every classifier the train/dev pair is created at most once and at most
\* one training job is enqueued.
C9_SingleCreation ==
  /\ Cardinality(DOMAIN labeled_sets) <= 2 * Cardinality(DOMAIN classifiers)
  /\ \A c \in ClassifierIds : queue[[task_type |-> "training", id |-> c]] <= 1

ObservedCategories(table) == {table[i][2] : i \in 2..Len(table)}

CategoryMismatch(classifier_id, table) ==
  ObservedCategories(table) # Range(classifiers[classifier_id].category_names)

\* The upload of `table` by request r is rejected as a category mismatch and
\* changes nothing but the request's own position.
RejectedAsMismatch(r) ==
  /\ req'[r].pc = "raise"
  /\ req'[r].error = "UnprocessableEntity:categories"
  /\ UNCHANGED <<database, files, queue>>

\* C10 as stated: every uploaded table whose category set differs from the declared
\* one is rejected with the category-mismatch error, without side effects.
C10_AnyMismatchRejected ==
  [][\A r \in Requests :
       (req[r].pc = "idle" /\ req'[r].pc # "idle") =>
         \A c \in DOMAIN classifiers, t \in Tables :
           (CategoryMismatch(c, t) /\ UploadBeginWith(r, c, t)) => RejectedAsMismatch(r)]_vars

\* C10 amended: every uploaded table with two columns and the expected header row
\* whose category set differs from the declared one is rejected with the
\* category-mismatch error; the step writes no file, creates no row and enqueues
\* no job, and the rest of the request only delivers the error.
C10_MismatchRejected ==
  [][\A r \in Requests :
       /\ (req[r].pc = "idle" /\ req'[r].pc # "idle") =>
            \A c \in DOMAIN classifiers, t \in Tables :
              ( /\ TableHasNumColumns(t, 2)
                /\ TableHasHeaders(t, ExpectedHeaders)
                /\ CategoryMismatch(c, t)
                /\ UploadBeginWith(r, c, t) ) => RejectedAsMismatch(r)
       /\ (req[r].pc = "raise" /\ req'[r] # req[r])
            => /\ req'[r].pc = "done"
               /\ UNCHANGED <<database, files, queue>>]_vars

\* C10 witness: an upload has been rejected as a category mismatch; its classifier
\* has no file, no LabeledSet and no job.
C10_Witness ==
  \E r \in Requests :
    /\ req[r].pc = "raise"
    /\ req[r].error = "UnprocessableEntity:categories"
    /\ files[req[r].classifier_id] = [train |-> NoFile, dev |-> NoFile]
    /\ labeled_sets = <<>>
    /\ queue[[task_type |-> "training", id |-> req[r].classifier_id]] = 0

\* The categories that appear exactly once in the category column of a table.
CategoriesAppearingOnce(table) ==
  {c \in ObservedCategories(table) :
     Cardinality({i \in 2..Len(table) : table[i][2] = c}) = 1}

\* The upload by request r is rejected with the per-category error, which names
\* every category in `once`.
RejectedAsPerCategory(r, once) ==
  /\ req'[r].pc = "raise"
  /\ req'[r].error = "UnprocessableEntity:per_category"
  /\ once \subseteq req'[r].named

\* C11 as stated: every uploaded table with the expected header in which some
\* category appears exactly once is rejected with the per-category error naming
\* that category, whatever its category set.
C11_AnySingletonRejected ==
  [][\A r \in Requests :
       (req[r].pc = "idle" /\ req'[r].pc # "idle") =>
         \A c \in DOMAIN classifiers, t \in Tables :
           ( /\ TableHasNumColumns(t, 2)
             /\ TableHasHeaders(t, ExpectedHeaders)
             /\ CategoriesAppearingOnce(t) # {}
             /\ UploadBeginWith(r, c, t) )
             => RejectedAsPerCategory(r, CategoriesAppearingOnce(t))]_vars

\* C11 amended: every uploaded table with the expected header whose category set
\* equals the declared one and in which some category appears exactly once is
\* rejected with the per-category error, which names every such category; the
\* step changes no stored row, no file and not the queue.
C11_SingletonRejected ==
  [][\A r \in Requests :
       (req[r].pc = "idle" /\ req'[r].pc # "idle") =>
         \A c \in DOMAIN classifiers, t \in Tables :
           ( /\ TableHasNumColumns(t, 2)
             /\ TableHasHeaders(t, ExpectedHeaders)
             /\ ~CategoryMismatch(c, t)
             /\ CategoriesAppearingOnce(t) # {}
             /\ UploadBeginWith(r, c, t) )
             => /\ RejectedAsPerCategory(r, CategoriesAppearingOnce(t))
                /\ UNCHANGED <<database, files, queue>>]_vars

\* C11 witness: an upload has been rejected with the per-category error, which
\* names a category.
C11_Witness ==
  \E r \in Requests :
    /\ req[r].pc = "raise"
    /\ req[r].error = "UnprocessableEntity:per_category"
    /\ req[r].named # {}

\* C12: every uploaded table with the expected header and no data row at all,
\* which is below any minimum row count, is rejected with the insufficient-data
\* error.
C12_TooFewRowsRejected ==
  [][\A r \in Requests :
       (req[r].pc = "idle" /\ req'[r].pc # "idle") =>
         \A c \in DOMAIN classifiers, t \in Tables :
           ( /\ TableHasNumColumns(t, 2)
             /\ TableHasHeaders(t, ExpectedHeaders)
             /\ Len(t) = 1
             /\ UploadBeginWith(r, c, t) )
             => /\ req'[r].pc = "raise"
                /\ req'[r].error = "BadRequest:min_examples"]_vars

\* How often a row occurs in a csv file, the number of rows of a file, and the
\* categories that occur in it.
RowCount(file, row) == IF row \in DOMAIN file.rows THEN file.rows[row] ELSE 0
FileSize(file) == SumOver(file.rows, DOMAIN file.rows)
FileCategories(file) == {row[2] : row \in DOMAIN file.rows}

\* C13: whenever the upload of a table that passes validation writes the train and
\* the dev file, every input row is in exactly one of them, both files hold every
\* declared category, and the dev file takes 20% of the rows (rounded up), the
\* train file the rest.
C13_StratifiedPartition ==
  [][\A r \in Requests :
       (req[r].pc = "idle" /\ req'[r].pc = "save_train_set") =>
         \A c \in DOMAIN classifiers, t \in GroupedTables :
           ( /\ ValidateTrainingFileAndGetData(classifiers[c].category_names, t).error = "none"
             /\ UploadGroupedWith(r, c, t) )
             => LET n == Len(t) - 1
                    train == files'[c].train
                    dev == files'[c].dev
                IN /\ \A row \in DataRows :
                        RowCount(train, row) + RowCount(dev, row)
                          = Cardinality({i \in 2..Len(t) : t[i] = row})
                   /\ FileSize(dev) = (n * TestSizePct + 99) \div 100
                   /\ FileSize(train) = n - FileSize(dev)
                   /\ FileCategories(train) = Range(classifiers[c].category_names)
                   /\ FileCategories(dev) = Range(classifiers[c].category_names)]_vars

\* C14: a status request changes no stored row, no file and not the queue, and for
\* every classifier it reports "not_begun" exactly when the classifier has no train
\* set, "training" exactly when its train set is stored as not completed, and
\* "completed" exactly when its train set is stored as completed; the status is
\* thus determined by the stored record, the same at every request that finds the
\* record unchanged.
C14_StatusProjector ==
  [][\A r \in Requests :
       (req[r].pc = "idle" /\ req'[r].pc = "done") =>
         /\ UNCHANGED <<database, files, queue>>
         /\ DOMAIN req'[r].response = DOMAIN classifiers
         /\ \A c \in DOMAIN classifiers :
              LET status == req'[r].response[c]
                  train_set == classifiers[c].train_set
              IN /\ status \in {"not_begun", "training", "completed"}
                 /\ status = "not_begun" <=> train_set = Null
                 /\ status = "training" <=>
                      /\ train_set # Null
                      /\ ~labeled_sets[train_set].training_or_inference_completed
                 /\ status = "completed" <=>
                      /\ train_set # Null
                      /\ labeled_sets[train_set].training_or_inference_completed]_vars

\* C14 witness: one status request was answered "training" and another
\* "completed" for the same classifier.
C14_Witness ==
  \E r1, r2 \in Requests, c \in DOMAIN classifiers :
    /\ req[r1].pc = "done" /\ c \in DOMAIN req[r1].response
    /\ req[r2].pc = "done" /\ c \in DOMAIN req[r2].response
    /\ req[r1].response[c] = "training"
    /\ req[r2].response[c] = "completed"

\* The training job of classifier c has failed: its train and dev sets are both
\* stored with error_encountered = TRUE and not completed.
StoredAsFailed(c) ==
  /\ c \in DOMAIN classifiers
  /\ classifiers[c].train_set # Null
  /\ classifiers[c].dev_set # Null
  /\ labeled_sets[classifiers[c].train_set].error_encountered
  /\ ~labeled_sets[classifiers[c].train_set].training_or_inference_completed
  /\ labeled_sets[classifiers[c].dev_set].error_encountered
  /\ ~labeled_sets[classifiers[c].dev_set].training_or_inference_completed

\* C15: once the train and dev sets of a classifier are stored as failed, they stay
\* so at every later step, the classifier's status stays "training", and the
\* trainer is not invoked for that classifier again.
C15_ErrorTerminal ==
  [][\A c \in ClassifierIds :
       StoredAsFailed(c) =>
         /\ StoredAsFailed(c)'
         /\ ClassifierStatus(classifiers[c])' = "training"
         /\ \A w \in Workers :
              ~(wrk[w].job = [task_type |-> "training", id |-> c]
                  /\ wrk[w].pc = "start" /\ wrk'[w].pc = "train")
         /\ \A w \in Workers :
              ~(wrk[w].job = [task_type |-> "training", id |-> c]
                  /\ wrk[w].pc = "train" /\ wrk'[w].pc # "train")]_vars

\* The Notification Dispatcher was called by the training task on worker w and
\* raised: the exception is on its way out of the task.
NotificationRaised(w) ==
  /\ wrk[w].job.task_type = "training"
  /\ wrk[w].notified = 1
  /\ wrk[w].exc # "none"

\* C16 as stated: once the Notification Dispatcher has raised on the success path
\* of a training task, the task writes no LabeledSet row any more, so the success
\* is never stored.
C16_NotificationFailureAbortsPersistence ==
  [][\A w \in Workers :
       (NotificationRaised(w) /\ wrk'[w] # wrk[w]) => UNCHANGED labeled_sets]_vars

\* C16 amended: when the Notification Dispatcher raises on the success path of a
\* training task, control enters the finally block; the dev row is stored
\* completed with its Metrics attached, then the train row is stored completed,
\* and only then does the exception leave the task.
C16_NotificationFailureStillPersists ==
  [][\A w \in Workers :
       /\ (wrk[w].pc = "notify" /\ wrk'[w].exc # "none")
            => /\ wrk'[w].pc = "save_dev_set"
               /\ wrk'[w].dev_set.training_or_inference_completed
               /\ wrk'[w].train_set.training_or_inference_completed
       /\ (NotificationRaised(w) /\ wrk[w].pc = "save_dev_set" /\ wrk'[w].pc # "save_dev_set")
            => /\ wrk'[w].pc = "save_train_set"
               /\ PersistedDevSet(w)'.training_or_inference_completed
               /\ PersistedDevSet(w)'.metrics \in DOMAIN metrics_rows'
               /\ metrics_rows'[PersistedDevSet(w)'.metrics] = wrk[w].metrics
       /\ (NotificationRaised(w) /\ wrk[w].pc = "save_train_set" /\ wrk'[w].pc # "save_train_set")
            => /\ wrk'[w].pc = "save_classifier"
               /\ PersistedTrainSet(w)'.training_or_inference_completed
       /\ (NotificationRaised(w) /\ wrk[w].pc = "save_classifier" /\ wrk'[w].pc # "save_classifier")
            => /\ wrk'[w].pc = "done"
               /\ wrk'[w].exc = wrk[w].exc]_vars

\* C16 witness: a training task is left with the notification's exception, and its
\* train and dev rows are stored completed, without error, the Metrics attached.
C16_Witness ==
  \E w \in Workers :
    /\ wrk[w].pc = "done"
    /\ NotificationRaised(w)
    /\ PersistedDevSet(w).training_or_inference_completed
    /\ ~PersistedDevSet(w).error_encountered
    /\ PersistedDevSet(w).metrics \in DOMAIN metrics_rows
    /\ PersistedTrainSet(w).training_or_inference_completed
    /\ ~PersistedTrainSet(w).error_encountered

\* The copy in memory of the record the task on worker w works on carries the
\* completed flag, and the stored record does not show it yet.
CompletedInMemoryOnly(w) ==
  \/ /\ wrk[w].job.task_type = "training"
     /\ wrk[w].pc = "save_dev_set"
     /\ wrk[w].train_set.training_or_inference_completed
     /\ wrk[w].dev_set.training_or_inference_completed
     /\ ClassifierStatus(classifiers[wrk[w].job.id]) = "training"
     /\ ~PersistedDevSet(w).training_or_inference_completed
  \/ /\ wrk[w].job.task_type = "prediction"
     /\ wrk[w].pc = "save_test_set"
     /\ wrk[w].test_set.inference_completed
     /\ ~test_sets[wrk[w].job.id].inference_completed
  \/ /\ wrk[w].job.task_type = "topic_model"
     /\ wrk[w].pc = "save_lda_set"
     /\ wrk[w].lda_set.lda_completed
     /\ ~lda_sets[wrk[w].lda_set_id].lda_completed

\* C17: in all three executors the step that calls the Notification Dispatcher
\* writes nothing to storage and leaves the task at the save that follows, the
\* completed flag set only on the copy in memory; and a task that stores the flag
\* on its success path has called the Dispatcher before.
C17_NotifyBeforePersist ==
  [][\A w \in Workers :
       /\ wrk'[w].notified = wrk[w].notified + 1
            => /\ UNCHANGED database
               /\ wrk'[w].pc \in {"save_dev_set", "save_test_set", "save_lda_set"}
               /\ \/ wrk'[w].job.task_type = "training"
                     /\ wrk'[w].train_set.training_or_inference_completed
                     /\ wrk'[w].dev_set.training_or_inference_completed
                  \/ wrk'[w].job.task_type = "prediction"
                     /\ wrk'[w].test_set.inference_completed
                  \/ wrk'[w].job.task_type = "topic_model"
                     /\ wrk'[w].lda_set.lda_completed
       /\ ( /\ wrk[w].pc \in {"save_dev_set", "save_test_set", "save_lda_set"}
            /\ wrk'[w].pc # wrk[w].pc
            /\ wrk[w].outcome = "returned"
            /\ wrk[w].exc = "none" )
            => wrk[w].notified = 1]_vars

\* C17 witness: the training task and a topic-model task have both called the
\* Notification Dispatcher while the stored train, dev and LDASet rows, and the
\* classifier's status, still show the jobs as not completed.
C17_Witness ==
  \E w1, w2 \in Workers :
    /\ wrk[w1].job.task_type = "training"
    /\ wrk[w1].notified = 1
    /\ CompletedInMemoryOnly(w1)
    /\ wrk[w2].job.task_type = "topic_model"
    /\ wrk[w2].notified = 1
    /\ CompletedInMemoryOnly(w2)

\* C18: for every training job that waits in the queue or that a worker has taken
\* and not yet loaded, the classifier is stored with its train_set and dev_set
\* references set, both to stored LabeledSet rows; so no training task is left by
\* a failed assertion.
C18_RecordsExistBeforeJob ==
  /\ \A c \in ClassifierIds :
       LET job == [task_type |-> "training", id |-> c]
       IN (queue[job] > 0 \/ \E w \in Workers : wrk[w].job = job /\ wrk[w].pc = "start")
            => /\ c \in DOMAIN classifiers
               /\ classifiers[c].train_set \in DOMAIN labeled_sets
               /\ classifiers[c].dev_set \in DOMAIN labeled_sets
  /\ \A w \in Workers :
       wrk[w].job.task_type = "training" => wrk[w].exc # "AssertionError"

\* C18 witness: a worker has loaded the records of a training job while another
\* upload request for the same classifier is still between its saves.
C18_Witness ==
  \E w \in Workers, r \in Requests :
    /\ wrk[w].job.task_type = "training"
    /\ wrk[w].pc = "train"
    /\ req[r].pc \in {"save_train_set", "save_dev_set", "save_classifier"}
    /\ req[r].classifier_id = wrk[w].job.id

\* C19: whenever the status of a classifier is "completed", its dev set is stored
\* completed and refers to a stored Metrics row.
C19_CompletedImpliesMetricsStored ==
  \A c \in DOMAIN classifiers :
    ClassifierStatus(classifiers[c]) = "completed" =>
      /\ classifiers[c].dev_set # Null
      /\ labeled_sets[classifiers[c].dev_set].training_or_inference_completed
      /\ labeled_sets[classifiers[c].dev_set].metrics \in DOMAIN metrics_rows

\* C20: no stored LabeledSet, TestSet or LDASet row has both its completed flag
\* and error_encountered set.
C20_OutcomeFlagsExclusive ==
  /\ \A i \in DOMAIN labeled_sets :
       ~(labeled_sets[i].training_or_inference_completed /\ labeled_sets[i].error_encountered)
  /\ \A i \in DOMAIN test_sets :
       ~(test_sets[i].inference_completed /\ test_sets[i].error_encountered)
  /\ \A i \in DOMAIN lda_sets :
       ~(lda_sets[i].lda_completed /\ lda_sets[i].error_encountered)
====
